---- MODULE Spec2Model ----
(***************************************************************************)
(* Model of ga4gh/datamodel/datasets.py: AbstractDataset (four ordered,    *)
(* id-indexed collections plus the read-group-set name map and the         *)
(* description), its read methods, and the FileSystemDataset constructor.  *)
(*                                                                         *)
(* Names (local ids, file names) are sequences of one-character strings.   *)
(* An optional value is <<>> (Python None) or <<x>>.                       *)
(***************************************************************************)
EXTENDS Integers, Sequences, FiniteSets, TLC

VARIABLES
    variantSetIds, variantSetIdMap,
    readGroupSetIds, readGroupSetIdMap, readGroupSetNameMap,
    description,
    rnaQuantificationIds, rnaQuantificationIdMap,
    sequenceAnnotationIds, sequenceAnnotationIdMap,
    added,      \* history: per collection, the entities passed to add, in call order
    result,     \* outcome of the last method call: what it returned or raised
    pc,         \* position of the constructor, "ready" once it has returned
    fs,         \* the file system the FileSystemDataset constructor reads
    params,     \* the arguments the constructor was called with
    todo        \* entries of the current os.listdir still to be visited

dataVars == <<variantSetIds, variantSetIdMap,
              readGroupSetIds, readGroupSetIdMap, readGroupSetNameMap,
              description,
              rnaQuantificationIds, rnaQuantificationIdMap,
              sequenceAnnotationIds, sequenceAnnotationIdMap>>

vars == <<variantSetIds, variantSetIdMap,
          readGroupSetIds, readGroupSetIdMap, readGroupSetNameMap,
          description,
          rnaQuantificationIds, rnaQuantificationIdMap,
          sequenceAnnotationIds, sequenceAnnotationIdMap,
          added, result, pc, fs, params, todo>>

\* what a constructor is given and never assigns
inputs == <<fs, params>>

(***************************************************************************)
(* Bounds                                                                  *)
(***************************************************************************)
\* total number of add calls made on the dataset through its public methods
MaxAdds == 2

(***************************************************************************)
(* Values                                                                  *)
(***************************************************************************)
None == <<>>

Some(x) == <<x>>

\* the local id of the dataset under construction, and of another dataset
selfLocalId == <<"d", "1">>

otherLocalId == <<"d", "2">>

\* local names of the entities handed to the add methods
LocalIds == {<<"a">>, <<"b">>}

\* a compound id: the parent's id (None for a dataset) and the local id
Encode(parentId, localId) == <<parentId, localId>>

selfId == Encode(None, selfLocalId)

ParentIds == {selfId, Encode(None, otherLocalId)}

\* DatamodelObject.getId / getLocalId of an entity
getId(e) == Encode(e.parentId, e.localId)

getLocalId(e) == e.localId

\* a newly constructed DatamodelObject; obj is the Python object identity
NewEntity(parentId, localId, obj) ==
    [parentId |-> parentId, localId |-> localId, obj |-> obj]

\* object identities are handed out in construction order
nextObj ==
    Len(added.vs) + Len(added.rgs) + Len(added.rq) + Len(added.sa) + 1

Ids == {Encode(p, l) : p \in ParentIds, l \in LocalIds}

\* indexes tried on the by-index getters: beyond both ends of any list
Indices == (0 - (MaxAdds + 1)) .. (MaxAdds + 1)

(***************************************************************************)
(* Python dict and list primitives                                         *)
(***************************************************************************)
\* d[k] = v
DictSet(d, k, v) ==
    [x \in (DOMAIN d) \cup {k} |-> IF x = k THEN v ELSE d[x]]

EmptyDict == [x \in {} |-> None]

\* the values of a dict
DictValues(d) == {d[k] : k \in DOMAIN d}

\* whether list[index] is defined: Python accepts -len <= index < len
ListIndexOk(list, index) == (0 - Len(list)) <= index /\ index < Len(list)

\* list[index]
ListIndex(list, index) ==
    IF index >= 0 THEN list[index + 1] ELSE list[Len(list) + index + 1]

Returned(op, arg, value) ==
    [op |-> op, arg |-> arg, status |-> "ok", value |-> value]

Raised(op, arg, exception, args) ==
    [op |-> op, arg |-> arg, status |-> exception, value |-> args]

(***************************************************************************)
(* AbstractDataset.__init__                                                *)
(***************************************************************************)
AbstractDatasetInit ==
    /\ variantSetIds = <<>>
    /\ variantSetIdMap = EmptyDict
    /\ readGroupSetIds = <<>>
    /\ readGroupSetIdMap = EmptyDict
    /\ readGroupSetNameMap = EmptyDict
    /\ description = None
    /\ rnaQuantificationIds = <<>>
    /\ rnaQuantificationIdMap = EmptyDict
    /\ sequenceAnnotationIds = <<>>
    /\ sequenceAnnotationIdMap = EmptyDict
    /\ added = [vs |-> <<>>, rgs |-> <<>>, rq |-> <<>>, sa |-> <<>>]

(***************************************************************************)
(* The add methods.  Each is the method body; the caller (a public call or *)
(* a constructor loop) says what else stays unchanged.                     *)
(***************************************************************************)
\* addVariantSet filing the variant set under its local id in the id map
addVariantSet_keyByLocalId(variantSet) ==
    LET id_ == getId(variantSet) IN
    /\ variantSetIdMap' =
           DictSet(variantSetIdMap, getLocalId(variantSet), variantSet)
    /\ variantSetIds' = Append(variantSetIds, id_)
    /\ added' = [added EXCEPT !.vs = Append(@, variantSet)]
    /\ UNCHANGED <<readGroupSetIds, readGroupSetIdMap, readGroupSetNameMap,
                   description, rnaQuantificationIds, rnaQuantificationIdMap,
                   sequenceAnnotationIds, sequenceAnnotationIdMap>>

addVariantSet(variantSet) ==
    LET id_ == getId(variantSet) IN
    /\ variantSetIdMap' = DictSet(variantSetIdMap, id_, variantSet)
    /\ variantSetIds' = Append(variantSetIds, id_)
    /\ added' = [added EXCEPT !.vs = Append(@, variantSet)]
    /\ UNCHANGED <<readGroupSetIds, readGroupSetIdMap, readGroupSetNameMap,
                   description, rnaQuantificationIds, rnaQuantificationIdMap,
                   sequenceAnnotationIds, sequenceAnnotationIdMap>>

\* addReadGroupSet keeping the entity already stored under the id
addReadGroupSet_keepFirst(readGroupSet) ==
    LET id_ == getId(readGroupSet) IN
    /\ readGroupSetIdMap' =
           IF id_ \in DOMAIN readGroupSetIdMap
           THEN readGroupSetIdMap
           ELSE DictSet(readGroupSetIdMap, id_, readGroupSet)
    /\ readGroupSetNameMap' =
           DictSet(readGroupSetNameMap, getLocalId(readGroupSet), readGroupSet)
    /\ readGroupSetIds' = Append(readGroupSetIds, id_)
    /\ added' = [added EXCEPT !.rgs = Append(@, readGroupSet)]
    /\ UNCHANGED <<variantSetIds, variantSetIdMap,
                   description, rnaQuantificationIds, rnaQuantificationIdMap,
                   sequenceAnnotationIds, sequenceAnnotationIdMap>>

addReadGroupSet(readGroupSet) ==
    LET id_ == getId(readGroupSet) IN
    /\ readGroupSetIdMap' = DictSet(readGroupSetIdMap, id_, readGroupSet)
    /\ readGroupSetNameMap' =
           DictSet(readGroupSetNameMap, getLocalId(readGroupSet), readGroupSet)
    /\ readGroupSetIds' = Append(readGroupSetIds, id_)
    /\ added' = [added EXCEPT !.rgs = Append(@, readGroupSet)]
    /\ UNCHANGED <<variantSetIds, variantSetIdMap,
                   description, rnaQuantificationIds, rnaQuantificationIdMap,
                   sequenceAnnotationIds, sequenceAnnotationIdMap>>

addRnaQuantification(rnaQuant) ==
    LET id_ == getId(rnaQuant) IN
    /\ rnaQuantificationIdMap' = DictSet(rnaQuantificationIdMap, id_, rnaQuant)
    /\ rnaQuantificationIds' = Append(rnaQuantificationIds, id_)
    /\ added' = [added EXCEPT !.rq = Append(@, rnaQuant)]
    /\ UNCHANGED <<variantSetIds, variantSetIdMap,
                   readGroupSetIds, readGroupSetIdMap, readGroupSetNameMap,
                   description,
                   sequenceAnnotationIds, sequenceAnnotationIdMap>>

addSequenceAnnotation(annotation) ==
    LET id_ == getId(annotation) IN
    /\ sequenceAnnotationIdMap' =
           DictSet(sequenceAnnotationIdMap, id_, annotation)
    /\ sequenceAnnotationIds' = Append(sequenceAnnotationIds, id_)
    /\ added' = [added EXCEPT !.sa = Append(@, annotation)]
    /\ UNCHANGED <<variantSetIds, variantSetIdMap,
                   readGroupSetIds, readGroupSetIdMap, readGroupSetNameMap,
                   description,
                   rnaQuantificationIds, rnaQuantificationIdMap>>

(***************************************************************************)
(* The read methods.  Each sets result to what the method returns or       *)
(* raises; none assigns to a field of the dataset.                         *)
(***************************************************************************)
toProtocolElement ==
    /\ result' = Returned("toProtocolElement", None,
                          [id |-> selfId, name |-> selfLocalId,
                           description |-> description])
    /\ UNCHANGED <<dataVars, added>>

\* [idMap[id_] for id_ in ids]
ListOfEntities(op, ids, idMap) ==
    IF \E i \in 1..Len(ids) : ids[i] \notin DOMAIN idMap
    THEN Raised(op, None, "KeyError",
                <<ids[CHOOSE i \in 1..Len(ids) : ids[i] \notin DOMAIN idMap]>>)
    ELSE Returned(op, None, [i \in 1..Len(ids) |-> idMap[ids[i]]])

\* idMap[ids[index]]
EntityByIndex(op, ids, idMap, index) ==
    IF ~ListIndexOk(ids, index)
    THEN Raised(op, index, "IndexError", <<>>)
    ELSE IF ListIndex(ids, index) \notin DOMAIN idMap
    THEN Raised(op, index, "KeyError", <<ListIndex(ids, index)>>)
    ELSE Returned(op, index, idMap[ListIndex(ids, index)])

getVariantSets ==
    /\ result' = ListOfEntities("getVariantSets", variantSetIds,
                                variantSetIdMap)
    /\ UNCHANGED <<dataVars, added>>

getNumVariantSets ==
    /\ result' = Returned("getNumVariantSets", None, Len(variantSetIds))
    /\ UNCHANGED <<dataVars, added>>

getVariantSet(id_) ==
    /\ result' = IF id_ \notin DOMAIN variantSetIdMap
                 THEN Raised("getVariantSet", id_,
                             "VariantSetNotFoundException", <<id_>>)
                 ELSE Returned("getVariantSet", id_, variantSetIdMap[id_])
    /\ UNCHANGED <<dataVars, added>>

\* list.pop(index): the list without the element at index
ListPop(list, index) ==
    LET at == IF index >= 0 THEN index + 1 ELSE Len(list) + index + 1
    IN  SubSeq(list, 1, at - 1) \o SubSeq(list, at + 1, Len(list))

\* getVariantSetByIndex reading the id with pop(index) instead of [index]
getVariantSetByIndex_pop(index) ==
    /\ result' = EntityByIndex("getVariantSetByIndex", variantSetIds,
                               variantSetIdMap, index)
    /\ variantSetIds' = IF ListIndexOk(variantSetIds, index)
                        THEN ListPop(variantSetIds, index)
                        ELSE variantSetIds
    /\ UNCHANGED <<variantSetIdMap,
                   readGroupSetIds, readGroupSetIdMap, readGroupSetNameMap,
                   description,
                   rnaQuantificationIds, rnaQuantificationIdMap,
                   sequenceAnnotationIds, sequenceAnnotationIdMap, added>>

getVariantSetByIndex(index) ==
    /\ result' = EntityByIndex("getVariantSetByIndex", variantSetIds,
                               variantSetIdMap, index)
    /\ UNCHANGED <<dataVars, added>>

getNumReadGroupSets ==
    /\ result' = Returned("getNumReadGroupSets", None, Len(readGroupSetIds))
    /\ UNCHANGED <<dataVars, added>>

getReadGroupSets ==
    /\ result' = ListOfEntities("getReadGroupSets", readGroupSetIds,
                                readGroupSetIdMap)
    /\ UNCHANGED <<dataVars, added>>

getReadGroupSetByName(name) ==
    /\ result' = IF name \notin DOMAIN readGroupSetNameMap
                 THEN Raised("getReadGroupSetByName", name,
                             "ReadGroupSetNameNotFoundException", <<name>>)
                 ELSE Returned("getReadGroupSetByName", name,
                               readGroupSetNameMap[name])
    /\ UNCHANGED <<dataVars, added>>

getReadGroupSetByIndex(index) ==
    /\ result' = EntityByIndex("getReadGroupSetByIndex", readGroupSetIds,
                               readGroupSetIdMap, index)
    /\ UNCHANGED <<dataVars, added>>

getReadGroupSet(id_) ==
    /\ result' = IF id_ \notin DOMAIN readGroupSetIdMap
                 THEN Raised("getReadGroupSet", id_,
                             "ReadGroupNotFoundException", <<id_>>)
                 ELSE Returned("getReadGroupSet", id_, readGroupSetIdMap[id_])
    /\ UNCHANGED <<dataVars, added>>

getDescription ==
    /\ result' = Returned("getDescription", None, description)
    /\ UNCHANGED <<dataVars, added>>

getRnaQuantificationIds ==
    /\ result' = Returned("getRnaQuantificationIds", None,
                          rnaQuantificationIds)
    /\ UNCHANGED <<dataVars, added>>

getRnaQuantificationIdMap ==
    /\ result' = Returned("getRnaQuantificationIdMap", None,
                          rnaQuantificationIdMap)
    /\ UNCHANGED <<dataVars, added>>

getRnaQuantifications ==
    /\ result' = ListOfEntities("getRnaQuantifications", rnaQuantificationIds,
                                rnaQuantificationIdMap)
    /\ UNCHANGED <<dataVars, added>>

getRnaQuantification(id_) ==
    /\ result' = IF id_ \notin DOMAIN rnaQuantificationIdMap
                 THEN Raised("getRnaQuantification", id_,
                             "RnaQuantificationNotFoundException", <<id_>>)
                 ELSE Returned("getRnaQuantification", id_,
                               rnaQuantificationIdMap[id_])
    /\ UNCHANGED <<dataVars, added>>

getSequenceAnnotationIdMap ==
    /\ result' = Returned("getSequenceAnnotationIdMap", None,
                          sequenceAnnotationIdMap)
    /\ UNCHANGED <<dataVars, added>>

getSequenceAnnotations ==
    /\ result' = Returned("getSequenceAnnotations", None,
                          sequenceAnnotationIds)
    /\ UNCHANGED <<dataVars, added>>

getSequenceAnnotation(id_) ==
    /\ result' = IF id_ \notin DOMAIN sequenceAnnotationIdMap
                 THEN Raised("getSequenceAnnotation", id_,
                             "SequenceAnnotationNotFoundException", <<id_>>)
                 ELSE Returned("getSequenceAnnotation", id_,
                               sequenceAnnotationIdMap[id_])
    /\ UNCHANGED <<dataVars, added>>

(***************************************************************************)
(* A dataset built by AbstractDataset.__init__ and then used through its   *)
(* public methods.                                                         *)
(***************************************************************************)
NoFileSystem ==
    [sidecar |-> None, variants |-> None, reads |-> None,
     rnaQuant |-> None, sequenceAnnotations |-> None]

Init ==
    /\ AbstractDatasetInit
    /\ result = Returned("__init__", selfLocalId, None)
    /\ pc = "ready"
    /\ fs = NoFileSystem
    /\ params = [localId |-> selfLocalId]
    /\ todo = <<>>

\* a caller builds a new entity and hands it to an add method
CanAdd == pc = "ready" /\ nextObj <= MaxAdds

CallAddVariantSet ==
    /\ CanAdd
    /\ \E p \in ParentIds, l \in LocalIds :
           LET e == NewEntity(p, l, nextObj) IN
           /\ addVariantSet(e)
           /\ result' = Returned("addVariantSet", e, None)
    /\ UNCHANGED <<pc, inputs, todo>>

CallAddReadGroupSet ==
    /\ CanAdd
    /\ \E p \in ParentIds, l \in LocalIds :
           LET e == NewEntity(p, l, nextObj) IN
           /\ addReadGroupSet(e)
           /\ result' = Returned("addReadGroupSet", e, None)
    /\ UNCHANGED <<pc, inputs, todo>>

CallAddRnaQuantification ==
    /\ CanAdd
    /\ \E p \in ParentIds, l \in LocalIds :
           LET e == NewEntity(p, l, nextObj) IN
           /\ addRnaQuantification(e)
           /\ result' = Returned("addRnaQuantification", e, None)
    /\ UNCHANGED <<pc, inputs, todo>>

CallAddSequenceAnnotation ==
    /\ CanAdd
    /\ \E p \in ParentIds, l \in LocalIds :
           LET e == NewEntity(p, l, nextObj) IN
           /\ addSequenceAnnotation(e)
           /\ result' = Returned("addSequenceAnnotation", e, None)
    /\ UNCHANGED <<pc, inputs, todo>>

Add ==
    \/ CallAddVariantSet
    \/ CallAddReadGroupSet
    \/ CallAddRnaQuantification
    \/ CallAddSequenceAnnotation

Read ==
    /\ pc = "ready"
    /\ UNCHANGED <<pc, inputs, todo>>
    /\ \/ toProtocolElement
       \/ getVariantSets
       \/ getNumVariantSets
       \/ \E id_ \in Ids : getVariantSet(id_)
       \/ \E index \in Indices : getVariantSetByIndex(index)
       \/ getNumReadGroupSets
       \/ getReadGroupSets
       \/ \E name \in LocalIds : getReadGroupSetByName(name)
       \/ \E index \in Indices : getReadGroupSetByIndex(index)
       \/ \E id_ \in Ids : getReadGroupSet(id_)
       \/ getDescription
       \/ getRnaQuantificationIds
       \/ getRnaQuantificationIdMap
       \/ getRnaQuantifications
       \/ \E id_ \in Ids : getRnaQuantification(id_)
       \/ getSequenceAnnotationIdMap
       \/ getSequenceAnnotations
       \/ \E id_ \in Ids : getSequenceAnnotation(id_)

Next == Add \/ Read

Spec == Init /\ [][Next]_vars

(***************************************************************************)
(* FileSystemDataset.  The file system is an input: the sidecar file (None *)
(* when <dataDir>.json is not a file, else the parsed JSON object) and the *)
(* four subdirectories (None when missing, else what os.listdir returns,   *)
(* in the order it returns it).  An entry has a name, is a directory or    *)
(* not, and is well-formed (its resource class can be built) or not.       *)
(***************************************************************************)
\* total number of directory entries under the data directory
MaxEntries == 2

dataDir == <<"/", "d", "1">>

VARIANTS == <<"v", "a", "r", "i", "a", "n", "t", "s">>

READS == <<"r", "e", "a", "d", "s">>

RNAQUANT == <<"r", "n", "a", "Q", "u", "a", "n", "t">>

SEQUENCEANNOTATIONS ==
    <<"s", "e", "q", "u", "e", "n", "c", "e",
      "A", "n", "n", "o", "t", "a", "t", "i", "o", "n", "s">>

DOTJSON == <<".", "j", "s", "o", "n">>

DOTBAM == <<".", "b", "a", "m">>

\* os.path.join(a, b) for a relative b and an a that does not end in "/"
PathJoin(a, b) == a \o <<"/">> \o b

\* str.rfind of a character: the last position (from 1) holding c, 0 if none
RFind(p, c) ==
    IF \E i \in 1..Len(p) : p[i] = c
    THEN CHOOSE i \in 1..Len(p) :
             p[i] = c /\ \A j \in (i + 1)..Len(p) : p[j] # c
    ELSE 0

\* os.path.splitext: split at the last dot after the last "/", unless only
\* dots come before it in the file name
splitext(p) ==
    LET sepIndex == RFind(p, "/")
        dotIndex == RFind(p, ".")
    IN  IF /\ dotIndex > sepIndex
           /\ \E i \in (sepIndex + 1)..(dotIndex - 1) : p[i] # "."
        THEN <<SubSeq(p, 1, dotIndex - 1), SubSeq(p, dotIndex, Len(p))>>
        ELSE <<p, <<>>>>

\* fnmatch.fnmatch(filename, '*.bam') on a case-sensitive (POSIX) platform
fnmatchStarBam(filename) ==
    /\ Len(filename) >= Len(DOTBAM)
    /\ SubSeq(filename, Len(filename) - Len(DOTBAM) + 1, Len(filename)) = DOTBAM

Entry(name, isDir, ok) == [name |-> name, isDir |-> isDir, ok |-> ok]

VariantEntries ==
    {Entry(n, d, k) : n \in {<<"a">>, <<"b">>}, d \in BOOLEAN, k \in BOOLEAN}
    \ {Entry(n, FALSE, FALSE) : n \in {<<"a">>, <<"b">>}}

ReadNames ==
    {<<"a">> \o DOTBAM, DOTBAM, DOTBAM \o DOTBAM,
     <<"a", ".", "B", "A", "M">>, <<"n", ".", "t", "x", "t">>}

ReadEntries ==
    {Entry(n, FALSE, k) : n \in ReadNames, k \in BOOLEAN}
    \ {Entry(n, FALSE, FALSE) : n \in {m \in ReadNames : ~fnmatchStarBam(m)}}

RnaQuantEntries == VariantEntries

SequenceAnnotationEntries ==
    {Entry(n, FALSE, k) :
        n \in {<<"a", ".", "g", "f", "f">>, <<"b">>}, k \in BOOLEAN}

Sidecars ==
    {None,
     Some([name |-> "foo"]),
     Some([description |-> "text"]),
     Some([name |-> "foo", description |-> "text"])}

\* what a directory can be when it holds n entries drawn from E: missing
\* (only for n = 0) or a listing of n entries of distinct names, in any order
Directories(E, n) ==
    (IF n = 0 THEN {None} ELSE {}) \cup
    {Some(l) : l \in {m \in [1..n -> E] :
                        \A i, j \in 1..n : m[i].name = m[j].name => i = j}}

Pending(op, arg) ==
    [op |-> op, arg |-> arg, status |-> "pending", value |-> None]

\* the call FileSystemDataset(localId, dataDir, backend): super().__init__
\* has run and self._dataDir is set
InitLoad ==
    /\ AbstractDatasetInit
    /\ result = Pending("__init__", dataDir)
    /\ pc = "setMetadata"
    /\ todo = <<>>
    /\ params = [localId |-> selfLocalId, dataDir |-> dataDir]
    /\ \E nv, nr, nq, ns \in 0..MaxEntries :
          /\ nv + nr + nq + ns <= MaxEntries
          /\ \E sc \in Sidecars,
                v \in Directories(VariantEntries, nv),
                r \in Directories(ReadEntries, nr),
                q \in Directories(RnaQuantEntries, nq),
                a \in Directories(SequenceAnnotationEntries, ns) :
                fs = [sidecar |-> sc, variants |-> v, reads |-> r,
                      rnaQuant |-> q, sequenceAnnotations |-> a]

\* the constructor raises: the exception leaves __init__
Fail(exception, args) ==
    /\ pc' = "failed"
    /\ result' = Raised("__init__", dataDir, exception, args)

\* str(KeyError(key)) for a unicode key under Python 2
StrKeyError(key) == <<"u'", key, "'">>

\* _setMetadata opening the sidecar without the os.path.isfile test
setMetadata_open ==
    /\ pc = "setMetadata"
    /\ LET metadataFileName == dataDir \o DOTJSON IN
       IF fs.sidecar # None
       THEN LET metadata == fs.sidecar[1] IN
            IF "description" \in DOMAIN metadata
            THEN /\ description' = Some(metadata["description"])
                 /\ pc' = "listVariants"
                 /\ UNCHANGED result
            ELSE /\ Fail("MissingDatasetMetadataException",
                         <<metadataFileName, StrKeyError("description")>>)
                 /\ UNCHANGED description
       ELSE /\ Fail("IOError", <<metadataFileName>>)
            /\ UNCHANGED description
    /\ UNCHANGED <<variantSetIds, variantSetIdMap,
                   readGroupSetIds, readGroupSetIdMap, readGroupSetNameMap,
                   rnaQuantificationIds, rnaQuantificationIdMap,
                   sequenceAnnotationIds, sequenceAnnotationIdMap,
                   added, inputs, todo>>

\* _setMetadata reading the key with metadata.get('description')
setMetadata_get ==
    /\ pc = "setMetadata"
    /\ IF fs.sidecar # None
       THEN LET metadata == fs.sidecar[1] IN
            description' = IF "description" \in DOMAIN metadata
                           THEN Some(metadata["description"])
                           ELSE None
       ELSE UNCHANGED description
    /\ pc' = "listVariants"
    /\ UNCHANGED <<variantSetIds, variantSetIdMap,
                   readGroupSetIds, readGroupSetIdMap, readGroupSetNameMap,
                   rnaQuantificationIds, rnaQuantificationIdMap,
                   sequenceAnnotationIds, sequenceAnnotationIdMap,
                   added, inputs, todo, result>>

setMetadata ==
    /\ pc = "setMetadata"
    /\ LET metadataFileName == dataDir \o DOTJSON IN
       IF fs.sidecar # None
       THEN LET metadata == fs.sidecar[1] IN
            IF "description" \in DOMAIN metadata
            THEN /\ description' = Some(metadata["description"])
                 /\ pc' = "listVariants"
                 /\ UNCHANGED result
            ELSE /\ Fail("MissingDatasetMetadataException",
                         <<metadataFileName, StrKeyError("description")>>)
                 /\ UNCHANGED description
       ELSE /\ pc' = "listVariants"
            /\ UNCHANGED <<description, result>>
    /\ UNCHANGED <<variantSetIds, variantSetIdMap,
                   readGroupSetIds, readGroupSetIdMap, readGroupSetNameMap,
                   rnaQuantificationIds, rnaQuantificationIdMap,
                   sequenceAnnotationIds, sequenceAnnotationIdMap,
                   added, inputs, todo>>

\* os.listdir guarded by os.path.isdir: a missing directory lists as empty
listdir_guarded(at, dir, path, scan) ==
    /\ pc = at
    /\ todo' = IF dir = None THEN <<>> ELSE dir[1]
    /\ pc' = scan
    /\ UNCHANGED result
    /\ UNCHANGED <<dataVars, added, inputs>>

\* for ... in os.listdir(dir): the call of os.listdir
listdir(at, dir, path, scan) ==
    /\ pc = at
    /\ IF dir = None
       THEN /\ Fail("OSError", <<path>>)
            /\ UNCHANGED todo
       ELSE /\ todo' = dir[1]
            /\ pc' = scan
            /\ UNCHANGED result
    /\ UNCHANGED <<dataVars, added, inputs>>

\* the loop has visited every entry
endOfListing(at, next) ==
    /\ pc = at
    /\ todo = <<>>
    /\ pc' = next
    /\ UNCHANGED <<dataVars, added, inputs, todo, result>>

\* the loop body skips the entry
skipEntry == UNCHANGED <<dataVars, added, pc, result>>

\* the loop body catching the error of the resource class and going on
factoryFails_caught(path) == UNCHANGED <<dataVars, added, pc, result>>

\* the resource class raises on a malformed entry
factoryFails(path) ==
    /\ Fail("FormatError", <<path>>)
    /\ UNCHANGED <<dataVars, added>>

listVariants ==
    listdir("listVariants", fs.variants, PathJoin(dataDir, VARIANTS),
            "scanVariants")

\* the Variants loop without the os.path.isdir test
scanVariant_anyEntry ==
    /\ pc = "scanVariants"
    /\ todo # <<>>
    /\ LET entry == Head(todo)
           localId == entry.name
           relativePath ==
               PathJoin(PathJoin(dataDir, VARIANTS), localId)
       IN  IF entry.ok
           THEN /\ addVariantSet(NewEntity(selfId, localId, nextObj))
                /\ UNCHANGED <<pc, result>>
           ELSE factoryFails(relativePath)
    /\ todo' = Tail(todo)
    /\ UNCHANGED inputs

scanVariant ==
    /\ pc = "scanVariants"
    /\ todo # <<>>
    /\ LET entry == Head(todo)
           localId == entry.name
           relativePath ==
               PathJoin(PathJoin(dataDir, VARIANTS), localId)
       IN  IF entry.isDir
           THEN IF entry.ok
                THEN /\ addVariantSet(NewEntity(selfId, localId, nextObj))
                     /\ UNCHANGED <<pc, result>>
                ELSE factoryFails(relativePath)
           ELSE skipEntry
    /\ todo' = Tail(todo)
    /\ UNCHANGED inputs

\* the constructor with the Rna Quantification block placed before Reads
variantsScanned_thenRnaQuant == endOfListing("scanVariants", "listRnaQuant")

variantsScanned == endOfListing("scanVariants", "listReads")

listReads ==
    listdir("listReads", fs.reads, PathJoin(dataDir, READS), "scanReads")

scanRead ==
    /\ pc = "scanReads"
    /\ todo # <<>>
    /\ LET entry == Head(todo)
           filename == entry.name
           localId == splitext(filename)[1]
           bamPath == PathJoin(PathJoin(dataDir, READS), filename)
       IN  IF fnmatchStarBam(filename)
           THEN IF entry.ok
                THEN /\ addReadGroupSet(NewEntity(selfId, localId, nextObj))
                     /\ UNCHANGED <<pc, result>>
                ELSE factoryFails(bamPath)
           ELSE skipEntry
    /\ todo' = Tail(todo)
    /\ UNCHANGED inputs

readsScanned == endOfListing("scanReads", "listRnaQuant")

listRnaQuant ==
    listdir("listRnaQuant", fs.rnaQuant, PathJoin(dataDir, RNAQUANT),
            "scanRnaQuant")

scanRnaQuant ==
    /\ pc = "scanRnaQuant"
    /\ todo # <<>>
    /\ LET entry == Head(todo)
           localId == entry.name
           relativePath ==
               PathJoin(PathJoin(dataDir, RNAQUANT), localId)
       IN  IF entry.isDir
           THEN IF entry.ok
                THEN /\ addRnaQuantification(
                            NewEntity(selfId, localId, nextObj))
                     /\ UNCHANGED <<pc, result>>
                ELSE factoryFails(relativePath)
           ELSE skipEntry
    /\ todo' = Tail(todo)
    /\ UNCHANGED inputs

rnaQuantScanned == endOfListing("scanRnaQuant", "listSequenceAnnotations")

listSequenceAnnotations ==
    listdir("listSequenceAnnotations", fs.sequenceAnnotations,
            PathJoin(dataDir, SEQUENCEANNOTATIONS), "scanSequenceAnnotations")

scanSequenceAnnotation ==
    /\ pc = "scanSequenceAnnotations"
    /\ todo # <<>>
    /\ LET entry == Head(todo)
           gffFile == entry.name
           relativePath ==
               PathJoin(PathJoin(dataDir, SEQUENCEANNOTATIONS), gffFile)
       IN  IF entry.ok
           THEN /\ addSequenceAnnotation(NewEntity(selfId, gffFile, nextObj))
                /\ UNCHANGED <<pc, result>>
           ELSE factoryFails(relativePath)
    /\ todo' = Tail(todo)
    /\ UNCHANGED inputs

\* the last loop ends and the constructor returns
sequenceAnnotationsScanned ==
    /\ pc = "scanSequenceAnnotations"
    /\ todo = <<>>
    /\ pc' = "ready"
    /\ result' = Returned("__init__", dataDir, None)
    /\ UNCHANGED <<dataVars, added, inputs, todo>>

NextLoad ==
    \/ setMetadata
    \/ listVariants
    \/ scanVariant
    \/ variantsScanned
    \/ listReads
    \/ scanRead
    \/ readsScanned
    \/ listRnaQuant
    \/ scanRnaQuant
    \/ rnaQuantScanned
    \/ listSequenceAnnotations
    \/ scanSequenceAnnotation
    \/ sequenceAnnotationsScanned
    \/ Read

SpecLoad == InitLoad /\ [][NextLoad]_vars

(***************************************************************************)
(* SimulatedDataset.__init__                                               *)
(***************************************************************************)
\* largest count of simulated resources of one kind
MaxSim == 2

RandomSeeds == {0 - 1, 0, 5}

Digits == <<"0", "1", "2", "3", "4", "5", "6", "7", "8", "9">>

RECURSIVE Decimal(_)
\* "{}".format(i) for an int i
Decimal(i) ==
    IF i < 0 THEN <<"-">> \o Decimal(0 - i)
    ELSE IF i < 10 THEN <<Digits[i + 1]>>
    ELSE Decimal(i \div 10) \o <<Digits[(i % 10) + 1]>>

\* prefix + "{}".format(i)
Format(prefix, i) == prefix \o Decimal(i)

SIMVS == <<"s", "i", "m", "V", "s">>

SIMRGS == <<"s", "i", "m", "R", "g", "s">>

SIMRQ == <<"s", "i", "m", "R", "q">>

\* range(n)
range(n) == IF n <= 0 THEN <<>> ELSE [k \in 1..n |-> k - 1]

\* a simulated resource object built from a random seed
SimulatedEntity(parentId, localId, obj, seed) ==
    [parentId |-> parentId, localId |-> localId, obj |-> obj, seed |-> seed]

\* the call SimulatedDataset(localId, referenceSet, randomSeed,
\* numVariantSets, ..., numReadGroupSets, ..., numRnaQuants):
\* super().__init__ has run
InitSim ==
    /\ AbstractDatasetInit
    /\ result = Pending("__init__", selfLocalId)
    /\ pc = "simDescription"
    /\ todo = <<>>
    /\ fs = NoFileSystem
    /\ \E seed \in RandomSeeds, nv, nr, nq \in 0..MaxSim :
          params = [localId |-> selfLocalId,
                    randomSeed |-> seed,
                    numVariantSets |-> nv,
                    numReadGroupSets |-> nr,
                    numRnaQuants |-> nq]

simDescription ==
    /\ pc = "simDescription"
    /\ description' = <<"Simulated dataset ">> \o params.localId
    /\ todo' = range(params.numVariantSets)
    /\ pc' = "simVariants"
    /\ UNCHANGED <<variantSetIds, variantSetIdMap, readGroupSetIds,
                   readGroupSetIdMap, readGroupSetNameMap,
                   rnaQuantificationIds, rnaQuantificationIdMap,
                   sequenceAnnotationIds, sequenceAnnotationIdMap,
                   added, inputs, result>>

\* the Variants loop body giving every variant set the seed of the dataset
simVariantSet_sameSeed ==
    /\ pc = "simVariants"
    /\ todo # <<>>
    /\ LET i == Head(todo)
           localId == Format(SIMVS, i)
           seed == params.randomSeed
       IN  addVariantSet(SimulatedEntity(selfId, localId, nextObj, seed))
    /\ todo' = Tail(todo)
    /\ UNCHANGED <<pc, inputs, result>>

simVariantSet ==
    /\ pc = "simVariants"
    /\ todo # <<>>
    /\ LET i == Head(todo)
           localId == Format(SIMVS, i)
           seed == params.randomSeed + i
       IN  addVariantSet(SimulatedEntity(selfId, localId, nextObj, seed))
    /\ todo' = Tail(todo)
    /\ UNCHANGED <<pc, inputs, result>>

\* a for-loop over range(n) ends and the next one starts
endOfRange(at, next, n) ==
    /\ pc = at
    /\ todo = <<>>
    /\ pc' = next
    /\ todo' = range(n)
    /\ UNCHANGED <<dataVars, added, inputs, result>>

variantSetsSimulated ==
    endOfRange("simVariants", "simReads", params.numReadGroupSets)

simReadGroupSet ==
    /\ pc = "simReads"
    /\ todo # <<>>
    /\ LET i == Head(todo)
           localId == Format(SIMRGS, i)
           seed == params.randomSeed + i
       IN  addReadGroupSet(SimulatedEntity(selfId, localId, nextObj, seed))
    /\ todo' = Tail(todo)
    /\ UNCHANGED <<pc, inputs, result>>

readGroupSetsSimulated ==
    endOfRange("simReads", "simRnaQuants", params.numRnaQuants)

simRnaQuant ==
    /\ pc = "simRnaQuants"
    /\ todo # <<>>
    /\ LET i == Head(todo)
           localId == Format(SIMRQ, i)
       IN  addRnaQuantification(NewEntity(selfId, localId, nextObj))
    /\ todo' = Tail(todo)
    /\ UNCHANGED <<pc, inputs, result>>

\* the last loop ends and the constructor returns
rnaQuantsSimulated ==
    /\ pc = "simRnaQuants"
    /\ todo = <<>>
    /\ pc' = "ready"
    /\ result' = Returned("__init__", selfLocalId, None)
    /\ UNCHANGED <<dataVars, added, inputs, todo>>

NextSim ==
    \/ simDescription
    \/ simVariantSet
    \/ variantSetsSimulated
    \/ simReadGroupSet
    \/ readGroupSetsSimulated
    \/ simRnaQuant
    \/ rnaQuantsSimulated
    \/ Read

SpecSim == InitSim /\ [][NextSim]_vars

(***************************************************************************)
(* Properties of the collections                                           *)
(***************************************************************************)
Range(seq) == {seq[i] : i \in 1..Len(seq)}

NoRepeat(seq) == \A i, j \in 1..Len(seq) : seq[i] = seq[j] => i = j

\* the step is a call of the add method `op` with an entity whose key
\* (under keyOf) is already in `dict`
AddOfPresent(op, keyOf(_), dict) ==
    /\ result'.op = op
    /\ keyOf(result'.arg) \in DOMAIN dict

\* C1: in each of the four collections, an add of an entity whose id is
\* already present fails with a duplicate-id error and leaves the ordered id
\* list (hence the count) and the id map as they were.
C1_DuplicateIdRejected ==
    [][ /\ AddOfPresent("addVariantSet", getId, variantSetIdMap)
           => /\ result'.status = "DuplicateIdError"
              /\ UNCHANGED <<variantSetIds, variantSetIdMap>>
        /\ AddOfPresent("addReadGroupSet", getId, readGroupSetIdMap)
           => /\ result'.status = "DuplicateIdError"
              /\ UNCHANGED <<readGroupSetIds, readGroupSetIdMap>>
        /\ AddOfPresent("addRnaQuantification", getId, rnaQuantificationIdMap)
           => /\ result'.status = "DuplicateIdError"
              /\ UNCHANGED <<rnaQuantificationIds, rnaQuantificationIdMap>>
        /\ AddOfPresent("addSequenceAnnotation", getId,
                        sequenceAnnotationIdMap)
           => /\ result'.status = "DuplicateIdError"
              /\ UNCHANGED <<sequenceAnnotationIds, sequenceAnnotationIdMap>>
      ]_vars

InSync(ids, idMap) ==
    /\ NoRepeat(ids)
    /\ Range(ids) = DOMAIN idMap
    /\ Len(ids) = Cardinality(DOMAIN idMap)

\* C2: in each of the four collections the ordered id list holds no id twice
\* and holds exactly the keys of the id map, so its length is the number of
\* map entries.
C2_ListAndMapInSync ==
    /\ InSync(variantSetIds, variantSetIdMap)
    /\ InSync(readGroupSetIds, readGroupSetIdMap)
    /\ InSync(rnaQuantificationIds, rnaQuantificationIdMap)
    /\ InSync(sequenceAnnotationIds, sequenceAnnotationIdMap)

\* a getAll call returned exactly the entities added, in the order added
ReturnsAdded(op, history) ==
    result.op = op => result.status = "ok" /\ result.value = history

\* a by-index call with 0 <= index < count returned the (index+1)-th added
ReturnsAddedAt(op, history) ==
    (result.op = op /\ 0 <= result.arg /\ result.arg < Len(history)) =>
        result.status = "ok" /\ result.value = history[result.arg + 1]

\* C3: getVariantSets, getReadGroupSets and getRnaQuantifications return the
\* added entities in the order in which they were added, and
\* getVariantSetByIndex(i) / getReadGroupSetByIndex(i), for 0 <= i < count,
\* return the (i+1)-th entity added to the collection.
C3_InsertionOrder ==
    /\ ReturnsAdded("getVariantSets", added.vs)
    /\ ReturnsAdded("getReadGroupSets", added.rgs)
    /\ ReturnsAdded("getRnaQuantifications", added.rq)
    /\ ReturnsAddedAt("getVariantSetByIndex", added.vs)
    /\ ReturnsAddedAt("getReadGroupSetByIndex", added.rgs)

\* C4: addReadGroupSet of a read-group set whose local name is already in
\* the name map fails with a duplicate-name error and leaves the name map,
\* the id map and the ordered id list unchanged.
C4_DuplicateNameRejected ==
    [][ AddOfPresent("addReadGroupSet", getLocalId, readGroupSetNameMap)
        => /\ result'.status = "DuplicateNameError"
           /\ UNCHANGED <<readGroupSetNameMap, readGroupSetIdMap,
                          readGroupSetIds>>
      ]_vars

\* C5: the read-group-set name map and the read-group-set id map hold the
\* same set of entities.
C5_NameMapAndIdMapSameEntities ==
    DictValues(readGroupSetNameMap) = DictValues(readGroupSetIdMap)

\* C6: when getReadGroupSetByName(n) has returned an entity e, a call of
\* getReadGroupSet(e.getId()) succeeds and returns that same e.
C6_NameLookupAgreesWithIdLookup ==
    [][ ( /\ result.op = "getReadGroupSetByName"
          /\ result.status = "ok"
          /\ result'.op = "getReadGroupSet"
          /\ result'.arg = getId(result.value) )
        => /\ result'.status = "ok"
           /\ result'.value = result.value
      ]_vars

\* a read-group set is in the dataset under two objects of the same name,
\* it was looked up by name and then by the id of the entity found
C6_Witness ==
    /\ Len(readGroupSetIds) = 2
    /\ Cardinality(DOMAIN readGroupSetNameMap) = 1
    /\ result.op = "getReadGroupSet"
    /\ result.status = "ok"
    /\ result.value \in DictValues(readGroupSetNameMap)

\* a get-by-id call succeeded exactly when the id was present, and failed
\* with the not-found error of its own resource kind otherwise
GetById(op, idMap, notFound) ==
    result.op = op =>
        result.status = (IF result.arg \in DOMAIN idMap
                         THEN "ok" ELSE notFound)

\* C7: getVariantSet, getReadGroupSet, getRnaQuantification and
\* getSequenceAnnotation succeed exactly when the id is present, and with an
\* absent id fail with the not-found error of the resource kind looked up:
\* variant set, read-group set, RNA quantification, sequence annotation.
C7_KindSpecificNotFound ==
    /\ GetById("getVariantSet", variantSetIdMap,
               "VariantSetNotFoundException")
    /\ GetById("getReadGroupSet", readGroupSetIdMap,
               "ReadGroupSetNotFoundException")
    /\ GetById("getRnaQuantification", rnaQuantificationIdMap,
               "RnaQuantificationNotFoundException")
    /\ GetById("getSequenceAnnotation", sequenceAnnotationIdMap,
               "SequenceAnnotationNotFoundException")

ReadOps ==
    {"toProtocolElement", "getVariantSets", "getNumVariantSets",
     "getVariantSet", "getVariantSetByIndex", "getNumReadGroupSets",
     "getReadGroupSets", "getReadGroupSetByName", "getReadGroupSetByIndex",
     "getReadGroupSet", "getDescription", "getRnaQuantificationIds",
     "getRnaQuantificationIdMap", "getRnaQuantifications",
     "getRnaQuantification", "getSequenceAnnotationIdMap",
     "getSequenceAnnotations", "getSequenceAnnotation"}

\* C8: every read method, whether it returns or raises, leaves the four
\* ordered id lists, the four id maps, the name map and the description
\* unchanged.
C8_ReadsChangeNothing ==
    [][ result'.op \in ReadOps => UNCHANGED dataVars ]_vars

\* a lookup has failed on a dataset that holds variant sets
C8_Witness ==
    /\ result.op \in ReadOps
    /\ result.status # "ok"
    /\ Len(variantSetIds) = MaxAdds

\* a by-index call returned an entity exactly for 0 <= index < count and
\* failed with an index error for every other index
ByIndexInRange(op, ids) ==
    result.op = op =>
        result.status = (IF 0 <= result.arg /\ result.arg < Len(ids)
                         THEN "ok" ELSE "IndexError")

\* C9: getVariantSetByIndex(i) and getReadGroupSetByIndex(i) return an entity
\* only for 0 <= i < count and fail with an index error for every other
\* integer i, negative ones included.
C9_IndexOutOfRange ==
    /\ ByIndexInRange("getVariantSetByIndex", variantSetIds)
    /\ ByIndexInRange("getReadGroupSetByIndex", readGroupSetIds)

(***************************************************************************)
(* Properties of the FileSystemDataset constructor                         *)
(***************************************************************************)
NothingAdded ==
    /\ variantSetIds = <<>> /\ variantSetIdMap = EmptyDict
    /\ readGroupSetIds = <<>> /\ readGroupSetIdMap = EmptyDict
    /\ readGroupSetNameMap = EmptyDict
    /\ rnaQuantificationIds = <<>> /\ rnaQuantificationIdMap = EmptyDict
    /\ sequenceAnnotationIds = <<>> /\ sequenceAnnotationIdMap = EmptyDict
    /\ nextObj = 1

SidecarLacksDescription ==
    fs.sidecar # None /\ "description" \notin DOMAIN fs.sidecar[1]

\* C10: when <dataDir>.json exists and its JSON object has no description
\* key, the constructor gets no further than the metadata step: it fails
\* there with a missing-metadata error that carries the sidecar path and
\* names the description key, and nothing has been added to any collection.
C10_MissingDescriptionIsFatal ==
    SidecarLacksDescription =>
        /\ pc \in {"setMetadata", "failed"}
        /\ NothingAdded
        /\ pc = "failed" =>
              /\ result.status = "MissingDatasetMetadataException"
              /\ result.value[1] = dataDir \o DOTJSON
              /\ \E i \in 1..Len(result.value[2]) :
                     result.value[2][i] = "description"

\* the load of a data directory that holds entries has failed on a sidecar
\* without a description key
C10_Witness ==
    /\ SidecarLacksDescription
    /\ pc = "failed"
    /\ fs.variants # None /\ fs.variants # Some(<<>>)

\* the constructor is past the metadata step
PastMetadata == pc # "setMetadata"

\* C11: without a sidecar file the metadata step does not fail (a failure,
\* if any, comes from a scan step) and the description stays unset, so that
\* after a successful load getDescription() returns None; with a sidecar
\* that has a description key getDescription() returns that value; and
\* getDescription() never raises.
C11_OptionalSidecar ==
    /\ (fs.sidecar = None /\ PastMetadata) =>
           /\ description = None
           /\ pc = "failed" => result.status \in {"OSError", "FormatError"}
    /\ (fs.sidecar # None /\ PastMetadata /\ pc # "failed") =>
           description = Some(fs.sidecar[1]["description"])
    /\ result.op = "getDescription" =>
           /\ result.status = "ok"
           /\ result.value = IF fs.sidecar = None
                             THEN None
                             ELSE Some(fs.sidecar[1]["description"])

\* a data directory without sidecar, holding entries, has been loaded and
\* asked for its description
C11_Witness ==
    /\ fs.sidecar = None
    /\ pc = "ready"
    /\ nextObj > 1
    /\ result.op = "getDescription"
    /\ result.value = None

\* the steps of the constructor in program order
Steps ==
    <<"setMetadata",
      "listVariants", "scanVariants",
      "listReads", "scanReads",
      "listRnaQuant", "scanRnaQuant",
      "listSequenceAnnotations", "scanSequenceAnnotations",
      "ready">>

StepOf(p) == CHOOSE i \in 1..Len(Steps) : Steps[i] = p

\* the constructor has not got past step p
NotPast(p) == pc = "failed" \/ StepOf(pc) <= StepOf(p)

Kinds == <<"variants", "reads", "rnaQuant", "sequenceAnnotations">>

DirOf(k) ==
    CASE k = 1 -> fs.variants
      [] k = 2 -> fs.reads
      [] k = 3 -> fs.rnaQuant
      [] k = 4 -> fs.sequenceAnnotations

PathOf(k) ==
    CASE k = 1 -> PathJoin(dataDir, VARIANTS)
      [] k = 2 -> PathJoin(dataDir, READS)
      [] k = 3 -> PathJoin(dataDir, RNAQUANT)
      [] k = 4 -> PathJoin(dataDir, SEQUENCEANNOTATIONS)

ListStepOf(k) ==
    CASE k = 1 -> "listVariants"
      [] k = 2 -> "listReads"
      [] k = 3 -> "listRnaQuant"
      [] k = 4 -> "listSequenceAnnotations"

\* whether the loop of kind k builds a resource from the entry
Builds(k, entry) ==
    CASE k = 1 -> entry.isDir
      [] k = 2 -> fnmatchStarBam(entry.name)
      [] k = 3 -> entry.isDir
      [] k = 4 -> TRUE

\* the entries of directory k from which a resource is built, in listing order
Built(k) == SelectSeq(DirOf(k)[1], LAMBDA entry : Builds(k, entry))

MetadataLoads ==
    fs.sidecar = None \/ "description" \in DOMAIN fs.sidecar[1]

\* directory k exists and every resource built from it is well-formed
ScanSucceeds(k) ==
    /\ DirOf(k) # None
    /\ \A i \in 1..Len(Built(k)) : Built(k)[i].ok

\* no step before the listing of directory k fails
NothingFailsBefore(k) ==
    MetadataLoads /\ \A j \in 1..(k - 1) : ScanSucceeds(j)

\* C12 as stated: when one of the four subdirectories is missing, the load
\* never reaches Ready and fails with the missing-directory error, which
\* carries the path of a missing directory.
C12_MissingDirectoryError ==
    (\E k \in 1..4 : DirOf(k) = None) =>
        /\ pc # "ready"
        /\ pc = "failed" =>
              /\ result.status = "OSError"
              /\ \E k \in 1..4 : DirOf(k) = None /\ result.value = <<PathOf(k)>>

\* C12 amended: when one of the four subdirectories is missing the load gets
\* no further than the listing of that directory, so it never reaches Ready;
\* and when no earlier step fails (the sidecar has its description key, the
\* earlier directories exist and their resources are well-formed) it fails
\* there with the OSError of os.listdir, which carries the path of the
\* missing directory (the data directory joined with the name of the kind).
C12_MissingDirectoryStopsLoad ==
    \A k \in 1..4 :
        DirOf(k) = None =>
            /\ NotPast(ListStepOf(k))
            /\ (NothingFailsBefore(k) /\ pc = "failed") =>
                  /\ result.status = "OSError"
                  /\ result.value = <<PathOf(k)>>

\* the load has failed at the missing reads directory after a variant set
\* was added
C12_Witness ==
    /\ fs.reads = None
    /\ pc = "failed"
    /\ result.status = "OSError"
    /\ result.value = <<PathJoin(dataDir, READS)>>
    /\ Len(variantSetIds) >= 1

\* the number of resources directory k holds
Expected(k) == IF DirOf(k) = None THEN 0 ELSE Len(Built(k))

\* the dataset holds one id per resource of the data directory
FullyPopulated ==
    /\ Len(variantSetIds) = Expected(1)
    /\ Len(readGroupSetIds) = Expected(2)
    /\ Len(rnaQuantificationIds) = Expected(3)
    /\ Len(sequenceAnnotationIds) = Expected(4)

\* the caller of the constructor has been handed the dataset
CallerHoldsDataset == result.op # "__init__" \/ result.status = "ok"

\* C13: a failed load leaves no half-populated dataset to a reader: when the
\* load has failed the constructor has raised, so its caller was handed no
\* dataset and no read method can be called on it; and a dataset a caller
\* was handed holds all the resources of the data directory.
C13_NoHalfPopulatedDatasetObservable ==
    /\ pc = "failed" => ~CallerHoldsDataset /\ ~ENABLED Read
    /\ CallerHoldsDataset => pc = "ready" /\ FullyPopulated

\* the load has failed after it had added some of the resources
C13_Witness ==
    /\ pc = "failed"
    /\ nextObj > 1
    /\ ~FullyPopulated

\* C14: after a successful load there is exactly one read-group set per
\* entry f of reads/ that matches *.bam and none for any other entry; the
\* one for f has the local name L with L + ".bam" = f and is registered
\* under L in the name map; distinct matching file names give distinct
\* local names.
C14_ReadGroupSetPerBamFile ==
    pc = "ready" =>
        LET bams == Built(2) IN
        /\ Len(added.rgs) = Len(bams)
        /\ \A i \in 1..Len(bams) :
               LET L == getLocalId(added.rgs[i]) IN
               /\ L \o DOTBAM = bams[i].name
               /\ L \in DOMAIN readGroupSetNameMap
               /\ readGroupSetNameMap[L] = added.rgs[i]
        /\ Cardinality(DOMAIN readGroupSetNameMap) = Len(bams)

\* the local id the loop of kind k gives the resource built from the entry
LocalIdOf(k, entry) ==
    IF k = 2 THEN splitext(entry.name)[1] ELSE entry.name

\* the ordered id list the loop of kind k produces from a listing
IdsOf(k, listing) ==
    LET built == SelectSeq(listing, LAMBDA entry : Builds(k, entry))
    IN  [i \in 1..Len(built) |-> Encode(selfId, LocalIdOf(k, built[i]))]

\* the orders in which os.listdir may return the entries of a listing
Reorderings(listing) ==
    {m \in [1..Len(listing) -> Range(listing)] : Range(m) = Range(listing)}

IdsLoaded(k) ==
    CASE k = 1 -> variantSetIds
      [] k = 2 -> readGroupSetIds
      [] k = 3 -> rnaQuantificationIds
      [] k = 4 -> sequenceAnnotationIds

\* C15: the ordered id list of every kind is the same whatever the order in
\* which the directory listing returns the entries: the list this load
\* produced is the list a load of any reordered listing produces.
C15_ListingOrderDoesNotShow ==
    pc = "ready" =>
        \A k \in 1..4 :
            \A other \in Reorderings(DirOf(k)[1]) :
                IdsLoaded(k) = IdsOf(k, other)

\* the ordered id lists are what the loops make of the listings as returned
LoadedInListingOrder ==
    pc = "ready" => \A k \in 1..4 : IdsLoaded(k) = IdsOf(k, DirOf(k)[1])

ScanSteps ==
    <<"scanVariants", "scanReads", "scanRnaQuant", "scanSequenceAnnotations">>

\* the constructor is in the loop of kind k, about to visit an entry from
\* which a resource is built and which is malformed
AtMalformed(k) ==
    /\ pc = ScanSteps[k]
    /\ todo # <<>>
    /\ Builds(k, Head(todo))
    /\ ~Head(todo).ok

\* C18: the load runs metadata, variants, reads, rnaQuant and
\* sequenceAnnotations in that order: the position only moves to the next
\* step or to Failed, a loop is left only when its listing is exhausted,
\* entities of a kind are added only inside the loop of that kind, and Ready
\* follows the end of the last loop.  A malformed entry is not skipped: the
\* step that visits it fails the load with the error of the resource class
\* and adds nothing, and after a failure nothing happens any more.
C18_FixedStepOrder ==
    [][ /\ pc' # pc =>
              \/ pc' = "failed" /\ pc \notin {"ready", "failed"}
              \/ /\ pc # "failed"
                 /\ pc' # "failed"
                 /\ StepOf(pc') = StepOf(pc) + 1
        /\ \A k \in 1..4 :
              /\ (pc = ScanSteps[k] /\ pc' \notin {pc, "failed"}) => todo = <<>>
              /\ IdsLoaded(k)' # IdsLoaded(k) => pc = ScanSteps[k]
              /\ AtMalformed(k) =>
                    /\ pc' = "failed"
                    /\ result' = Raised("__init__", dataDir, "FormatError",
                                        <<PathJoin(PathOf(k), Head(todo).name)>>)
                    /\ UNCHANGED dataVars
        /\ pc = "failed" => UNCHANGED vars
      ]_vars

\* a resource class has failed in the reads loop after the variants loop
\* had added a variant set
C18_Witness ==
    /\ pc = "failed"
    /\ result.status = "FormatError"
    /\ Len(variantSetIds) >= 1
    /\ fs.reads # None
    /\ \E i \in 1..Len(fs.reads[1]) : ~fs.reads[1][i].ok

\* the collection holds one entity per entry of `entries`, in that order,
\* the entity of an entry having the name of the entry as its local name
OnePerEntry(entries, history, ids, idMap) ==
    /\ Len(history) = Len(entries)
    /\ Len(ids) = Len(entries)
    /\ Cardinality(DOMAIN idMap) = Len(entries)
    /\ \A i \in 1..Len(entries) :
           /\ getLocalId(history[i]) = entries[i].name
           /\ ids[i] = getId(history[i])
           /\ ids[i] \in DOMAIN idMap
           /\ idMap[ids[i]] = history[i]

Subdirectories(listing) == SelectSeq(listing, LAMBDA entry : entry.isDir)

SimIds(prefix, n) ==
    [k \in 1..n |-> Encode(selfId, Format(prefix, k - 1))]

\* the history holds the entities of `ids`, and the list and the map hold
\* exactly them, in that order
HoldsExactly(ids, history, idList, idMap) ==
    /\ idList = ids
    /\ DOMAIN idMap = Range(ids)
    /\ Len(history) = Len(ids)
    /\ \A k \in 1..Len(ids) :
           /\ getId(history[k]) = ids[k]
           /\ idMap[ids[k]] = history[k]

\* C16: a constructed SimulatedDataset is a function of its local id, seed
\* and counts: its variant sets are exactly simVs0..simVs(N-1) in that order,
\* the i-th with seed randomSeed+i, its read-group sets exactly
\* simRgs0..simRgs(N-1), its RNA quantifications exactly simRq0..simRq(N-1),
\* and it has no sequence annotations.
C16_SimulatedDatasetDeterministic ==
    pc = "ready" =>
        /\ HoldsExactly(SimIds(SIMVS, params.numVariantSets), added.vs,
                        variantSetIds, variantSetIdMap)
        /\ \A k \in 1..Len(added.vs) :
               added.vs[k].seed = params.randomSeed + (k - 1)
        /\ HoldsExactly(SimIds(SIMRGS, params.numReadGroupSets), added.rgs,
                        readGroupSetIds, readGroupSetIdMap)
        /\ \A k \in 1..Len(added.rgs) :
               added.rgs[k].seed = params.randomSeed + (k - 1)
        /\ HoldsExactly(SimIds(SIMRQ, params.numRnaQuants), added.rq,
                        rnaQuantificationIds, rnaQuantificationIdMap)
        /\ sequenceAnnotationIds = <<>>
        /\ sequenceAnnotationIdMap = EmptyDict
        /\ description = <<"Simulated dataset ">> \o params.localId

\* a simulated dataset with several resources of every kind and a seed
\* other than the default has been built
C16_Witness ==
    /\ pc = "ready"
    /\ "randomSeed" \in DOMAIN params
    /\ params.randomSeed = 5
    /\ Len(variantSetIds) = 2
    /\ Len(readGroupSetIds) = 2
    /\ Len(rnaQuantificationIds) = 2
    /\ getLocalId(added.vs[2]) = <<"s", "i", "m", "V", "s", "1">>
    /\ added.vs[2].seed = 6

(***************************************************************************)
(* Properties of the collections when ids repeat                           *)
(***************************************************************************)
SameKeys(ids, idMap) == Range(ids) = DOMAIN idMap

\* a getAll call did not fail on a key missing from the id map
NoMissingKey(op) == result.op = op => result.status = "ok"

\* a by-index call with 0 <= index < count did not fail on a missing key
NoMissingKeyAt(op, ids) ==
    (result.op = op /\ 0 <= result.arg /\ result.arg < Len(ids)) =>
        result.status = "ok"

\* C20: after any sequence of adds, repeated ids included, the ids of every
\* ordered id list are exactly the keys of the collection's id map, so
\* getVariantSets, getReadGroupSets and getRnaQuantifications, and the
\* by-index getters for 0 <= i < count, do not fail with a missing key.
C20_ListedIdsAreMapKeys ==
    /\ SameKeys(variantSetIds, variantSetIdMap)
    /\ SameKeys(readGroupSetIds, readGroupSetIdMap)
    /\ SameKeys(rnaQuantificationIds, rnaQuantificationIdMap)
    /\ SameKeys(sequenceAnnotationIds, sequenceAnnotationIdMap)
    /\ NoMissingKey("getVariantSets")
    /\ NoMissingKey("getReadGroupSets")
    /\ NoMissingKey("getRnaQuantifications")
    /\ NoMissingKeyAt("getVariantSetByIndex", variantSetIds)
    /\ NoMissingKeyAt("getReadGroupSetByIndex", readGroupSetIds)

\* getVariantSets has returned on a dataset to which a variant set id was
\* added twice
C20_Witness ==
    /\ ~NoRepeat(variantSetIds)
    /\ result.op = "getVariantSets"
    /\ result.status = "ok"
    /\ Len(result.value) = MaxAdds

(***************************************************************************)
(* Properties of the add methods as written                                *)
(***************************************************************************)
\* the step is a call of the add method `op`: it returned, and the list
\* grew by exactly the id of the entity added
AddSucceeds(op, ids) ==
    result'.op = op =>
        /\ result'.status = "ok"
        /\ Len(ids') = Len(ids) + 1
        /\ ids' = Append(ids, getId(result'.arg))

\* the entity most recently added under the id
LastAdded(history, id_) ==
    history[CHOOSE i \in 1..Len(history) :
                /\ getId(history[i]) = id_
                /\ \A j \in (i + 1)..Len(history) : getId(history[j]) # id_]

WasAdded(history, id_) == \E i \in 1..Len(history) : getId(history[i]) = id_

\* the count is the number of add calls made; the id map holds, under every
\* id added, the entity added last under it; and the getters return that one
LastWriterWins(history, ids, idMap, numOp, getOp, allOp, indexOp) ==
    /\ Len(ids) = Len(history)
    /\ result.op = numOp => result.value = Len(history)
    /\ \A i \in 1..Len(history) :
           /\ getId(history[i]) \in DOMAIN idMap
           /\ idMap[getId(history[i])] = LastAdded(history, getId(history[i]))
    /\ (result.op = getOp /\ WasAdded(history, result.arg)) =>
           /\ result.status = "ok"
           /\ result.value = LastAdded(history, result.arg)
    /\ result.op = allOp =>
           /\ result.status = "ok"
           /\ Len(result.value) = Len(history)
           /\ \A i \in 1..Len(history) :
                  result.value[i] = LastAdded(history, getId(history[i]))
    /\ (result.op = indexOp /\ result.status = "ok") =>
           result.value = LastAdded(history, getId(result.value))

\* C21: every add call returns and lengthens the collection's id list, hence
\* its count, by exactly one, so the count equals the number of add calls
\* made; and under an id added more than once, get-by-id, getAll and
\* get-by-index return the entity added last, never an earlier one.
C21_EveryAddSucceedsLastWriterWins ==
    [][ /\ AddSucceeds("addVariantSet", variantSetIds)
        /\ AddSucceeds("addReadGroupSet", readGroupSetIds)
        /\ AddSucceeds("addRnaQuantification", rnaQuantificationIds)
        /\ AddSucceeds("addSequenceAnnotation", sequenceAnnotationIds)
        /\ LastWriterWins(added.vs, variantSetIds, variantSetIdMap,
                          "getNumVariantSets", "getVariantSet",
                          "getVariantSets", "getVariantSetByIndex")'
        /\ LastWriterWins(added.rgs, readGroupSetIds, readGroupSetIdMap,
                          "getNumReadGroupSets", "getReadGroupSet",
                          "getReadGroupSets", "getReadGroupSetByIndex")'
      ]_vars

\* a read-group set was added under the id of an earlier one, and lookup by
\* that id has returned the later of the two
C21_Witness ==
    /\ Len(added.rgs) = 2
    /\ getId(added.rgs[1]) = getId(added.rgs[2])
    /\ added.rgs[1] # added.rgs[2]
    /\ result.op = "getReadGroupSet"
    /\ result.status = "ok"
    /\ result.value = added.rgs[2]

====
